---- MODULE Spec2Model ----
(***************************************************************************)
(* A model of JanEttrich/dbprak:                                           *)
(*   task4/eloop_creation.py  the script that scans the timestamps, folds  *)
(*                            the junctions into per-loop accumulators and *)
(*                            writes ELoop nodes and CONNECTION edges;     *)
(*   task3/src/utility.py     box geometry and the two box queries.        *)
(* The graph database is modelled by the tables its queries return.        *)
(***************************************************************************)
EXTENDS Integers, Sequences, FiniteSets, TLC

VARIABLES
  dbLoops,        \* store: time -> the rows of loop_query (l.global_id as id)
  dbJunctions,    \* store: time -> the rows of junction_query (global_id, type)
  dbELoops,       \* store: the ELoop nodes created so far
  dbConnections,  \* store: the CONNECTION edges created so far
  issued,         \* the write queries run so far, in order, with their params
  scan,           \* the values of range(50, 10000, 50)
  tsIdx,          \* position of ts in scan
  final_dict,     \* the four parallel lists id, time, jtypes, connected_loops
  jIdx,           \* position of junction in all_junctions.iterrows()
  lIdx,           \* position of loop in loops (line 43)
  rowIdx,         \* position of (index, row) in final_df.iterrows()
  pc,             \* where the script is, or the exception that ended it
  call,           \* utility.py: the call last made, with its arguments
  ret,            \* utility.py: what that call returned or raised
  dbNodes,        \* store: the Node entities (nid, time, id, x, y, z)
  dbLoopEnts,     \* store: the Loop entities (lid, global_id, time)
  dbEdges         \* store: the edges Node--Loop, as pairs (nid, lid)

scriptVars == <<dbLoops, dbJunctions, dbELoops, dbConnections, issued, scan,
                tsIdx, final_dict, jIdx, lIdx, rowIdx, pc>>
utilVars == <<call, ret, dbNodes, dbLoopEnts, dbEdges>>
vars == <<dbLoops, dbJunctions, dbELoops, dbConnections, issued, scan, tsIdx,
          final_dict, jIdx, lIdx, rowIdx, pc, call, ret, dbNodes, dbLoopEnts,
          dbEdges>>

----------------------------------------------------------------------------
(* Bounds of the model *)

\* number of timestamps of the scan range (199 in the script)
MaxTimestamps == 2
\* loop tokens in all the junction ids of one timestamp (SpecFold)
MaxIdTokens == 4

(* Program constants *)
ScanStart == 50
ScanStep == 50
\* the script's stop is 10000 = 50 + 199 * 50; the model keeps the shape
ScanStop == ScanStart + MaxTimestamps * ScanStep

----------------------------------------------------------------------------
(* Python and pandas primitives the script uses *)

Max2(a, b) == IF a >= b THEN a ELSE b
Min2(a, b) == IF a <= b THEN a ELSE b

\* range(start, stop, step) for step > 0
Range(start, stop, step) ==
  LET n == IF stop <= start THEN 0 ELSE ((stop - start - 1) \div step) + 1
  IN [i \in 1..n |-> start + (i - 1) * step]

Digits == <<"0", "1", "2", "3", "4", "5", "6", "7", "8", "9">>
IsDigit(c) == \E d \in 1..10 : Digits[d] = c
DigitVal(c) == (CHOOSE d \in 1..10 : Digits[d] = c) - 1

\* str.split("-") on a string given as its characters
RECURSIVE SplitFrom(_, _, _)
SplitFrom(s, i, cur) ==
  IF i > Len(s) THEN <<cur>>
  ELSE IF s[i] = "-" THEN <<cur>> \o SplitFrom(s, i + 1, <<>>)
  ELSE SplitFrom(s, i + 1, Append(cur, s[i]))
Split(s) == SplitFrom(s, 1, <<>>)

\* int(token) for the unsigned decimal tokens of the model: a token that is
\* empty or holds a non-digit raises ValueError
IsNumeric(tok) == Len(tok) > 0 /\ \A i \in 1..Len(tok) : IsDigit(tok[i])
RECURSIVE DecimalValue(_, _)
DecimalValue(tok, n) ==
  IF n = 0 THEN 0 ELSE 10 * DecimalValue(tok, n - 1) + DigitVal(tok[n])
IntOf(tok) == DecimalValue(tok, Len(tok))

\* tuple.__getitem__: an integer key picks the element, any other key type
\* raises TypeError
IntKey(i) == [kind |-> "int", val |-> i]
StrKey(s) == [kind |-> "str", val |-> s]
TupleGetItem(t, key) ==
  IF key.kind = "int" /\ key.val \in 0..(Len(t) - 1)
  THEN [exc |-> "", val |-> t[key.val + 1]]
  ELSE IF key.kind = "int" THEN [exc |-> "IndexError", val |-> 0]
  ELSE [exc |-> "TypeError", val |-> 0]

RECURSIVE CountIn(_, _)
CountIn(x, s) ==
  IF s = <<>> THEN 0 ELSE (IF Head(s) = x THEN 1 ELSE 0) + CountIn(x, Tail(s))

SeqRange(s) == {s[i] : i \in 1..Len(s)}

----------------------------------------------------------------------------
(* eloop_creation.py *)

EmptyDict == [id |-> <<>>, time |-> <<>>, jtypes |-> <<>>, connected_loops |-> <<>>]

NumRows == Len(final_dict.id)

\* final_df: the rows of final_dict; its cells are the very list objects of
\* final_dict, its index the pairs (id, time)
IndexOf(r) == <<final_dict.id[r], final_dict.time[r]>>

\* Mutant of Loc: the row is looked up by the loop id alone
LocAnyTime(loop_id, t) == {r \in 1..NumRows : final_dict.id[r] = loop_id}

\* final_df.loc[loop_id, ts]: the positions of the rows with that index
Loc(loop_id, t) == {r \in 1..NumRows : IndexOf(r) = <<loop_id, t>>}

ts == scan[tsIdx]
all_junctions == dbJunctions[ts]
junction == all_junctions[jIdx]
loops == Split(junction.global_id)

\* lines 32-36: one row with empty lists per row of all_loops
RECURSIVE AppendLoops(_, _, _)
AppendLoops(d, all_loops, t) ==
  IF all_loops = <<>> THEN d
  ELSE AppendLoops([id |-> Append(d.id, Head(all_loops)),
                    time |-> Append(d.time, t),
                    jtypes |-> Append(d.jtypes, <<>>),
                    connected_loops |-> Append(d.connected_loops, <<>>)],
                   Tail(all_loops), t)

\* Mutant of OtherLoops: each other loop id once, however often it is named
RECURSIVE OtherLoopsOnce(_, _)
OtherLoopsOnce(ls, loop_id) ==
  IF ls = <<>> THEN <<>>
  ELSE LET rest == OtherLoopsOnce(Tail(ls), loop_id)
       IN IF IntOf(Head(ls)) # loop_id /\ CountIn(IntOf(Head(ls)), rest) = 0
          THEN <<IntOf(Head(ls))>> \o rest
          ELSE rest

\* line 48: [int(loop) for loop in loops if int(loop) != loop_id]
RECURSIVE OtherLoops(_, _)
OtherLoops(ls, loop_id) ==
  IF ls = <<>> THEN <<>>
  ELSE (IF IntOf(Head(ls)) # loop_id THEN <<IntOf(Head(ls))>> ELSE <<>>)
       \o OtherLoops(Tail(ls), loop_id)

\* the next position of the two nested loops of lines 41 and 43
AdvanceToken ==
  IF lIdx < Len(loops)
  THEN lIdx' = lIdx + 1 /\ jIdx' = jIdx
  ELSE lIdx' = 1 /\ jIdx' = jIdx + 1

\* line 19: MERGE (:ELoop{time, id, jtypes}) creates the node unless one with
\* all three properties exists
MergeELoop(nodes, p) ==
  IF \E n \in nodes : n.time = p.time /\ n.id = p.id /\ n.hasJtypes
                      /\ n.jtypes = p.jtypes
  THEN nodes
  ELSE nodes \cup {[nid |-> Cardinality(nodes) + 1, time |-> p.time,
                    id |-> p.id, hasJtypes |-> TRUE, jtypes |-> p.jtypes]}

\* line 20: MERGE (:ELoop{time1, id1})-[:CONNECTION]-(:ELoop{time2, id2})
\* matches the whole pattern or creates the whole pattern, both nodes included
ConnectionMatches(nodes, edges, p) ==
  \E a \in nodes, b \in nodes :
    /\ a.time = p.time1 /\ a.id = p.id1
    /\ b.time = p.time2 /\ b.id = p.id2
    /\ a.nid # b.nid
    /\ (<<a.nid, b.nid>> \in edges \/ <<b.nid, a.nid>> \in edges)
MergeConnectionNodes(nodes, edges, p) ==
  IF ConnectionMatches(nodes, edges, p) THEN nodes
  ELSE nodes \cup {[nid |-> Cardinality(nodes) + 1, time |-> p.time1,
                    id |-> p.id1, hasJtypes |-> FALSE, jtypes |-> <<>>],
                   [nid |-> Cardinality(nodes) + 2, time |-> p.time2,
                    id |-> p.id2, hasJtypes |-> FALSE, jtypes |-> <<>>]}
MergeConnectionEdges(nodes, edges, p) ==
  IF ConnectionMatches(nodes, edges, p) THEN edges
  ELSE edges \cup {<<Cardinality(nodes) + 1, Cardinality(nodes) + 2>>}

\* lines 29-40: the next timestamp: query its loops, append their rows to
\* final_dict, rebuild final_df, query its junctions
ScanTimestamp ==
  /\ pc = "for_ts"
  /\ tsIdx <= Len(scan)
  /\ final_dict' = AppendLoops(final_dict, dbLoops[ts], ts)
  /\ jIdx' = 1
  /\ lIdx' = 1
  /\ pc' = "fold"
  /\ UNCHANGED utilVars
  /\ UNCHANGED <<dbLoops, dbJunctions, dbELoops, dbConnections, issued, scan,
                 tsIdx, rowIdx>>

\* lines 10-14: run_query raises (the store is unreachable); at line 31 before
\* the rows are appended, at line 40 after
QueryFails ==
  /\ pc = "for_ts"
  /\ tsIdx <= Len(scan)
  /\ \E line \in {31, 40} :
       final_dict' = IF line = 31 THEN final_dict
                     ELSE AppendLoops(final_dict, dbLoops[ts], ts)
  /\ pc' = "QueryError"
  /\ UNCHANGED utilVars
  /\ UNCHANGED <<dbLoops, dbJunctions, dbELoops, dbConnections, issued, scan,
                 tsIdx, jIdx, lIdx, rowIdx>>

\* lines 46-48 on the row at position r: append the type, extend the peers
FoldRow(d, r, jtype, others) ==
  [d EXCEPT !.jtypes[r] = Append(@, jtype),
            !.connected_loops[r] = @ \o others]

\* lines 43-48: one pass of the inner loop, for the token loops[lIdx]
FoldToken ==
  /\ pc = "fold"
  /\ jIdx <= Len(all_junctions)
  /\ LET loop == loops[lIdx]
     IN IF ~IsNumeric(loop)
        THEN \* line 44: int(loop)
             /\ pc' = "ValueError"
             /\ UNCHANGED <<final_dict, jIdx, lIdx>>
        ELSE LET loop_id == IntOf(loop)
                 rows == Loc(loop_id, ts)
             IN IF rows = {}
                THEN \* line 46: final_df.loc[loop_id, ts]
                     /\ pc' = "KeyError"
                     /\ UNCHANGED <<final_dict, jIdx, lIdx>>
                ELSE LET r == CHOOSE x \in rows : TRUE
                     IN IF \E i \in 1..Len(loops) : ~IsNumeric(loops[i])
                        THEN \* line 46 has appended, line 48's int() raises
                             /\ final_dict' =
                                  FoldRow(final_dict, r, junction.type, <<>>)
                             /\ pc' = "ValueError"
                             /\ UNCHANGED <<jIdx, lIdx>>
                        ELSE /\ final_dict' =
                                  FoldRow(final_dict, r, junction.type,
                                          OtherLoops(loops, loop_id))
                             /\ AdvanceToken
                             /\ pc' = "fold"
  /\ UNCHANGED utilVars
  /\ UNCHANGED <<dbLoops, dbJunctions, dbELoops, dbConnections, issued, scan,
                 tsIdx, rowIdx>>

\* Mutant of NextTimestamp: the ELoop nodes of the timestamp are written
\* before the next timestamp is scanned
NextTimestampWriting ==
  /\ pc = "fold"
  /\ jIdx > Len(all_junctions)
  /\ tsIdx' = tsIdx + 1
  /\ pc' = "for_ts"
  /\ dbELoops' = dbELoops \cup
       {[nid |-> r, time |-> final_dict.time[r], id |-> final_dict.id[r],
         hasJtypes |-> TRUE, jtypes |-> final_dict.jtypes[r]] :
          r \in {x \in 1..NumRows : final_dict.time[x] = ts}}
  /\ issued' = issued \o
       [i \in 1..Len(dbLoops[ts]) |->
          [query |-> "create_eloop", time |-> ts, id |-> dbLoops[ts][i],
           jtypes |-> <<>>, id2 |-> 0]]
  /\ UNCHANGED utilVars
  /\ UNCHANGED <<dbLoops, dbJunctions, dbConnections, scan, final_dict, jIdx,
                 lIdx, rowIdx>>

\* line 41 exhausted: back to line 29 for the next value of the range
NextTimestamp ==
  /\ pc = "fold"
  /\ jIdx > Len(all_junctions)
  /\ tsIdx' = tsIdx + 1
  /\ pc' = "for_ts"
  /\ UNCHANGED utilVars
  /\ UNCHANGED <<dbLoops, dbJunctions, dbELoops, dbConnections, issued, scan,
                 final_dict, jIdx, lIdx, rowIdx>>

\* line 29 exhausted: lines 50-51, the first writer loop starts
EndScan ==
  /\ pc = "for_ts"
  /\ tsIdx > Len(scan)
  /\ rowIdx' = 1
  /\ pc' = "write_eloops"
  /\ UNCHANGED utilVars
  /\ UNCHANGED <<dbLoops, dbJunctions, dbELoops, dbConnections, issued, scan,
                 tsIdx, final_dict, jIdx, lIdx>>

\* lines 51-56: one pass of the first writer loop. iterrows() yields the
\* index of a row as the tuple (id, time); the script subscripts it by name
WriteELoop ==
  /\ pc = "write_eloops"
  /\ IF rowIdx > NumRows
     THEN /\ rowIdx' = 1
          /\ pc' = "write_connections"
          /\ UNCHANGED <<dbELoops, issued>>
     ELSE LET index == IndexOf(rowIdx)
              id == TupleGetItem(index, StrKey("id"))
              time == TupleGetItem(index, StrKey("time"))
          IN IF id.exc # "" \/ time.exc # ""
             THEN /\ pc' = (IF id.exc # "" THEN id.exc ELSE time.exc)
                  /\ UNCHANGED <<dbELoops, issued, rowIdx>>
             ELSE LET p == [time |-> time.val, id |-> id.val,
                            jtypes |-> final_dict.jtypes[rowIdx]]
                  IN /\ dbELoops' = MergeELoop(dbELoops, p)
                     /\ issued' = Append(issued, [query |-> "create_eloop",
                                                  time |-> p.time, id |-> p.id,
                                                  jtypes |-> p.jtypes, id2 |-> 0])
                     /\ rowIdx' = rowIdx + 1
                     /\ pc' = "write_eloops"
  /\ UNCHANGED utilVars
  /\ UNCHANGED <<dbLoops, dbJunctions, dbConnections, scan, tsIdx, final_dict,
                 jIdx, lIdx>>

\* lines 59-61 for one row: one MERGE per entry of its connected_loops
RECURSIVE ConnectRow(_, _, _, _)
ConnectRow(g, id, time, peers) ==
  IF peers = <<>> THEN g
  ELSE LET p == [id1 |-> id, time1 |-> time, id2 |-> Head(peers), time2 |-> time]
       IN ConnectRow([nodes |-> MergeConnectionNodes(g.nodes, g.edges, p),
                      edges |-> MergeConnectionEdges(g.nodes, g.edges, p),
                      issued |-> Append(g.issued,
                                        [query |-> "create_connections",
                                         time |-> time, id |-> id,
                                         jtypes |-> <<>>, id2 |-> Head(peers)])],
                     id, time, Tail(peers))

\* lines 58-64: one pass of the second writer loop
WriteConnections ==
  /\ pc = "write_connections"
  /\ IF rowIdx > NumRows
     THEN /\ pc' = "done"
          /\ UNCHANGED <<dbELoops, dbConnections, issued, rowIdx>>
     ELSE LET index == IndexOf(rowIdx)
              id == TupleGetItem(index, StrKey("id"))
              time == TupleGetItem(index, StrKey("time"))
          IN IF id.exc # "" \/ time.exc # ""
             THEN /\ pc' = (IF id.exc # "" THEN id.exc ELSE time.exc)
                  /\ UNCHANGED <<dbELoops, dbConnections, issued, rowIdx>>
             ELSE LET g == ConnectRow([nodes |-> dbELoops,
                                       edges |-> dbConnections,
                                       issued |-> issued],
                                      id.val, time.val,
                                      final_dict.connected_loops[rowIdx])
                  IN /\ dbELoops' = g.nodes
                     /\ dbConnections' = g.edges
                     /\ issued' = g.issued
                     /\ rowIdx' = rowIdx + 1
                     /\ pc' = "write_connections"
  /\ UNCHANGED utilVars
  /\ UNCHANGED <<dbLoops, dbJunctions, scan, tsIdx, final_dict, jIdx, lIdx>>

Next ==
  \/ ScanTimestamp
  \/ QueryFails
  \/ FoldToken
  \/ NextTimestamp
  \/ EndScan
  \/ WriteELoop
  \/ WriteConnections

----------------------------------------------------------------------------
(* The stores the script is run against *)

LoopIds == {1, 2, 3}
JunctionTypes == {"T", "H"}
IdTokens == {<<"1">>, <<"2">>, <<"3">>}

\* "-".join(tokens)
RECURSIVE Join(_)
Join(toks) ==
  IF Len(toks) = 1 THEN toks[1]
  ELSE toks[1] \o <<"-">> \o Join(Tail(toks))

JunctionsOf(k) ==
  {[global_id |-> Join(toks), type |-> t] :
     toks \in [1..k -> IdTokens], t \in JunctionTypes}

\* the junction tables whose ids hold at most n loop tokens in all
RECURSIVE JunctionTables(_)
JunctionTables(n) ==
  {<<>>} \cup UNION {{<<j>> \o rest : j \in JunctionsOf(k),
                                     rest \in JunctionTables(n - k)} :
                     k \in 1..n}

J(gid, type) == [global_id |-> gid, type |-> type]

\* the rows of loop_query: a Loop is identified by (global_id, time), so no
\* id comes twice
SmallLoopTables == {<<>>, <<1, 2>>, <<1, 2, 3>>}

\* a few junction tables for the runs over several timestamps: no junction,
\* the spec's examples, an id with a non-numeric token
SmallJunctionTables ==
  {<<>>,
   <<J(<<"1", "-", "2">>, "T")>>,
   <<J(<<"1", "-", "2">>, "T"), J(<<"1", "-", "3">>, "H")>>,
   <<J(<<"2", "-", "x">>, "T")>>}

NoCall == [fn |-> "none"]

UtilIdle ==
  /\ call = NoCall
  /\ ret = NoCall
  /\ dbNodes = {}
  /\ dbLoopEnts = {}
  /\ dbEdges = {}

ScriptStart ==
  /\ dbELoops = {}
  /\ dbConnections = {}
  /\ issued = <<>>
  /\ tsIdx = 1
  /\ final_dict = EmptyDict
  /\ jIdx = 1
  /\ lIdx = 1
  /\ rowIdx = 1
  /\ pc = "for_ts"

\* the script over MaxTimestamps timestamps
Init ==
  /\ scan = Range(ScanStart, ScanStop, ScanStep)
  /\ dbLoops \in [SeqRange(scan) -> SmallLoopTables]
  /\ dbJunctions \in [SeqRange(scan) -> SmallJunctionTables]
  /\ ScriptStart
  /\ UtilIdle

Spec == Init /\ [][Next]_vars

\* the script over one timestamp, with every junction table of the bound
InitFold ==
  /\ scan = Range(ScanStart, ScanStart + ScanStep, ScanStep)
  /\ dbJunctions \in [SeqRange(scan) -> JunctionTables(MaxIdTokens)]
  /\ dbLoops \in [SeqRange(scan) -> SmallLoopTables]
  /\ ScriptStart
  /\ UtilIdle

SpecFold == InitFold /\ [][Next]_vars

----------------------------------------------------------------------------
(* Properties of eloop_creation.py *)

Times == SeqRange(scan)
LoopsAt(t) == SeqRange(dbLoops[t])
RowAt(id, t) == CHOOSE r \in 1..NumRows : IndexOf(r) = <<id, t>>
JTypesOf(id, t) == final_dict.jtypes[RowAt(id, t)]
ConnectedOf(id, t) == final_dict.connected_loops[RowAt(id, t)]

ScanFailed == pc \in {"QueryError", "ValueError", "KeyError"}
Scanning == pc \in {"for_ts", "fold"} \/ ScanFailed
\* the scan went through and the script has ended, by its last line or by an
\* exception of a writer loop
RunEnded == pc \in {"done", "TypeError", "IndexError"}

\* the fold of the k-th timestamp has finished
FoldDone(k) ==
  \/ tsIdx > k
  \/ tsIdx = k /\ pc = "fold" /\ jIdx > Len(dbJunctions[scan[k]])

Tokens(j) == Split(j.global_id)
AllNumeric(j) == \A i \in 1..Len(Tokens(j)) : IsNumeric(Tokens(j)[i])
\* the set of loop ids a junction id decodes to
Decoded(j) == {IntOf(Tokens(j)[i]) : i \in 1..Len(Tokens(j))}
WellFormedAt(t) ==
  \A i \in 1..Len(dbJunctions[t]) :
    AllNumeric(dbJunctions[t][i]) /\ Decoded(dbJunctions[t][i]) \subseteq LoopsAt(t)
JunctionsWith(t, S) ==
  {i \in 1..Len(dbJunctions[t]) : S \subseteq Decoded(dbJunctions[t][i])}

\* C1: after the fold of a timestamp whose junction ids name only loops of
\* that timestamp, junctionTypes[L] holds one entry, the junction's type, per
\* junction whose decoded set holds L, and connectedLoops[L] holds, per such
\* junction, each other loop of its decoded set once (multisets).
C1_FoldMatchesReference ==
  \A k \in 1..Len(scan) :
    (FoldDone(k) /\ WellFormedAt(scan[k])) =>
      \A L \in LoopsAt(scan[k]) :
        /\ \A ty \in JunctionTypes :
             CountIn(ty, JTypesOf(L, scan[k])) =
               Cardinality({i \in JunctionsWith(scan[k], {L}) :
                              dbJunctions[scan[k]][i].type = ty})
        /\ Len(JTypesOf(L, scan[k])) = Cardinality(JunctionsWith(scan[k], {L}))
        /\ \A b \in LoopIds :
             CountIn(b, ConnectedOf(L, scan[k])) =
               IF b = L THEN 0
               ELSE Cardinality(JunctionsWith(scan[k], {L, b}))

\* every junction met so far is folded completely
AtJunctionBoundary ==
  \/ pc = "fold" /\ lIdx = 1
  \/ pc \in {"for_ts", "QueryError", "write_eloops", "write_connections"}
  \/ RunEnded

\* C10: once each junction is folded completely, for all distinct loops a, b
\* of a timestamp, b occurs in connectedLoops[a] as often as a occurs in
\* connectedLoops[b].
C10_ConnectionSymmetry ==
  AtJunctionBoundary =>
    \A ra \in 1..NumRows, rb \in 1..NumRows :
      (final_dict.time[ra] = final_dict.time[rb]
         /\ final_dict.id[ra] # final_dict.id[rb]) =>
        CountIn(final_dict.id[rb], final_dict.connected_loops[ra])
          = CountIn(final_dict.id[ra], final_dict.connected_loops[rb])

\* a junction naming three loop tokens, one of them twice, has been folded
C10_Witness ==
  /\ pc = "fold" /\ lIdx = 1 /\ jIdx > 1
  /\ LET toks == Tokens(all_junctions[jIdx - 1])
     IN Len(toks) = 3 /\ Cardinality(SeqRange(toks)) = 2
  /\ \E r \in 1..NumRows : Len(final_dict.connected_loops[r]) >= 2

\* a junction naming three different loops has been folded
C10_WitnessThreeLoops ==
  /\ pc = "fold" /\ lIdx = 1 /\ jIdx > 1
  /\ Cardinality(Decoded(all_junctions[jIdx - 1])) = 3

ELoopUpserts(id, t) ==
  {i \in 1..Len(issued) : issued[i].query = "create_eloop"
                          /\ issued[i].id = id /\ issued[i].time = t}
ConnectionUpserts(a, b, t) ==
  {i \in 1..Len(issued) : issued[i].query = "create_connections"
                          /\ issued[i].id = a /\ issued[i].id2 = b
                          /\ issued[i].time = t}

\* C2: when the run has ended after the scan, every loop of every timestamp
\* has exactly one ELoop upsert, with its accumulated junctionTypes; a loop in
\* no junction has one with an empty list and no CONNECTION upsert; no other
\* (id, time) has an ELoop upsert.
C2_EveryLoopUpserted ==
  RunEnded =>
    /\ \A t \in Times : \A id \in LoopsAt(t) :
         /\ Cardinality(ELoopUpserts(id, t)) = 1
         /\ \A i \in ELoopUpserts(id, t) : issued[i].jtypes = JTypesOf(id, t)
         /\ JunctionsWith(t, {id}) = {} =>
              /\ \A i \in ELoopUpserts(id, t) : issued[i].jtypes = <<>>
              /\ \A b \in LoopIds : ConnectionUpserts(id, b, t) = {}
    /\ \A i \in 1..Len(issued) :
         issued[i].query = "create_eloop" =>
           issued[i].time \in Times /\ issued[i].id \in LoopsAt(issued[i].time)

ELoopsOf(id, t) == {n \in dbELoops : n.id = id /\ n.time = t}

\* C3: the store never holds two ELoop nodes of one (loop id, time), and
\* after the run it holds exactly one for every loop of every timestamp.
C3_OneELoopPerKey ==
  /\ \A n \in dbELoops : Cardinality(ELoopsOf(n.id, n.time)) <= 1
  /\ RunEnded =>
       \A t \in Times : \A id \in LoopsAt(t) :
         Cardinality(ELoopsOf(id, t)) = 1

\* C4: for every timestamp and every pair of distinct loops {a, b} of it, the
\* CONNECTION upsert calls for the pair, in either direction, are as many as
\* the junctions of the timestamp that name both.
C4_OneUpsertPerCoOccurrence ==
  RunEnded =>
    \A t \in Times : \A a \in LoopsAt(t), b \in LoopsAt(t) :
      a < b =>
        Cardinality(ConnectionUpserts(a, b, t))
          + Cardinality(ConnectionUpserts(b, a, t))
          = Cardinality(JunctionsWith(t, {a, b}))

\* C6: when the scan fails at a timestamp, the store holds the ELoop nodes
\* and the CONNECTION edges of every earlier timestamp.
C6_EarlierTimestampsCommitted ==
  ScanFailed =>
    \A k \in 1..(tsIdx - 1) :
      /\ \A id \in LoopsAt(scan[k]) : ELoopsOf(id, scan[k]) # {}
      /\ \A a \in LoopsAt(scan[k]), b \in LoopsAt(scan[k]) :
           (a # b /\ JunctionsWith(scan[k], {a, b}) # {}) =>
             \E e \in dbConnections :
               \E n \in ELoopsOf(a, scan[k]), m \in ELoopsOf(b, scan[k]) :
                 e \in {<<n.nid, m.nid>>, <<m.nid, n.nid>>}

\* C6, amended: when the scan fails at a timestamp, the run has written
\* nothing: no ELoop node, no CONNECTION edge, no write query, for no
\* timestamp.
C6_NothingCommittedOnScanFailure ==
  ScanFailed => (dbELoops = {} /\ dbConnections = {} /\ issued = <<>>)

\* the scan fails at a later timestamp, an earlier one being folded
C6_Witness ==
  /\ pc \in {"ValueError", "KeyError"}
  /\ tsIdx >= 2
  /\ \E r \in 1..NumRows :
       final_dict.time[r] = scan[1] /\ final_dict.jtypes[r] # <<>>

\* C9: when the loop query of a timestamp has been issued, the ELoop and
\* CONNECTION writes of the timestamp before it have been issued, and the
\* accumulators hold no row of an earlier timestamp.
C9_WriteBeforeNextTimestamp ==
  (pc = "fold" /\ tsIdx >= 2) =>
    /\ \A id \in LoopsAt(scan[tsIdx - 1]) :
         ELoopUpserts(id, scan[tsIdx - 1]) # {}
    /\ \A r \in 1..NumRows : final_dict.time[r] = scan[tsIdx]

C9_State ==
  /\ \A i \in 1..(Len(scan) - 1) : scan[i] < scan[i + 1]
  /\ Scanning => (issued = <<>> /\ dbELoops = {} /\ dbConnections = {})
  /\ (pc = "fold" /\ tsIdx <= Len(scan)) =>
       \A k \in 1..tsIdx : \A id \in LoopsAt(scan[k]) :
         \E r \in 1..NumRows : IndexOf(r) = <<id, scan[k]>>

C9_Step ==
  /\ tsIdx' \in {tsIdx, tsIdx + 1}
  /\ tsIdx' = tsIdx + 1 => (pc = "fold" /\ jIdx > Len(all_junctions))
  /\ (pc = "for_ts" /\ pc' = "fold") => jIdx' = 1
  /\ NumRows' >= NumRows
  /\ \A r \in 1..NumRows :
       /\ final_dict'.id[r] = final_dict.id[r]
       /\ final_dict'.time[r] = final_dict.time[r]
       /\ (tsIdx > Len(scan) \/ final_dict.time[r] # scan[tsIdx]) =>
            /\ final_dict'.jtypes[r] = final_dict.jtypes[r]
            /\ final_dict'.connected_loops[r] = final_dict.connected_loops[r]

\* C9, amended: timestamps are handled in increasing order; the loop query,
\* the junction query and the fold of one finish before the loop query of the
\* next; no ELoop or CONNECTION write is issued while the scan runs; the rows
\* of earlier timestamps stay in the accumulators, and the fold of a timestamp
\* changes only the rows of that timestamp.
C9_ScanThenWrite == [](C9_State) /\ [][C9_Step]_vars

\* the second timestamp is being folded, the rows of the first still there
C9_Witness ==
  /\ pc = "fold" /\ tsIdx = 2 /\ jIdx > 1
  /\ \E r \in 1..NumRows :
       final_dict.time[r] = scan[1] /\ final_dict.jtypes[r] # <<>>
  /\ \E r \in 1..NumRows :
       final_dict.time[r] = scan[2] /\ final_dict.jtypes[r] # <<>>

----------------------------------------------------------------------------
(* utility.py *)

\* coordinates of the corner points of the geometry calls: 0..MaxCoord
MaxCoord == 1
Coords == 0..MaxCoord
Points == {<<x, y, z>> : x \in Coords, y \in Coords, z \in Coords}

\* Mutant of compute_box_constraints: max_z is taken from p1 alone
compute_box_constraints_z(p1, p2) ==
  <<Min2(p1[1], p2[1]), Max2(p1[1], p2[1]), Min2(p1[2], p2[2]),
    Max2(p1[2], p2[2]), Min2(p1[3], p2[3]), p1[3]>>

\* lines 17-36; p[1], p[2], p[3] are the script's p[0], p[1], p[2]
compute_box_constraints(p1, p2) ==
  LET min_x == Min2(p1[1], p2[1])
      max_x == Max2(p1[1], p2[1])
      min_y == Min2(p1[2], p2[2])
      max_y == Max2(p1[2], p2[2])
      min_z == Min2(p1[3], p2[3])
      max_z == Max2(p1[3], p2[3])
  IN <<min_x, max_x, min_y, max_y, min_z, max_z>>

\* lines 39-48
check_same_box(p1, p2, p3, p4) ==
  compute_box_constraints(p1, p2) = compute_box_constraints(p3, p4)

\* str(n), the way an f-string writes an integer into the query text
RECURSIVE StrNat(_)
StrNat(n) ==
  IF n < 10 THEN <<Digits[n + 1]>>
  ELSE StrNat(n \div 10) \o <<Digits[(n % 10) + 1]>>
Str(n) == IF n < 0 THEN <<"-">> \o StrNat(0 - n) ELSE StrNat(n)

\* the integer literal the query parser reads back
CypherInt(s) ==
  IF s[1] = "-" THEN 0 - IntOf(Tail(s)) ELSE IntOf(s)

\* lines 82-93: the query text, by its interpolated literals
NodesInBoxQuery(constraints, timestamp) ==
  [time |-> Str(timestamp),
   lo_x |-> Str(constraints[1]), hi_x |-> Str(constraints[2]),
   lo_y |-> Str(constraints[3]), hi_y |-> Str(constraints[4]),
   lo_z |-> Str(constraints[5]), hi_z |-> Str(constraints[6])]

\* the pairs (n, l) that match (n:Node{time})--(l:Loop) and the where clause
NodesInBoxMatches(q) ==
  {e \in dbEdges :
     \E n \in dbNodes, l \in dbLoopEnts :
       /\ e = <<n.nid, l.lid>>
       /\ n.time = CypherInt(q.time)
       /\ CypherInt(q.lo_x) <= n.x /\ n.x <= CypherInt(q.hi_x)
       /\ CypherInt(q.lo_y) <= n.y /\ n.y <= CypherInt(q.hi_y)
       /\ CypherInt(q.lo_z) <= n.z /\ n.z <= CypherInt(q.hi_z)}

NodeOf(nid) == CHOOSE n \in dbNodes : n.nid = nid
LoopOf(lid) == CHOOSE l \in dbLoopEnts : l.lid = lid
RowKey(n) == <<n.time, n.id, n.x, n.y, n.z>>

\* lines 87-92: one row per value of the five returned node properties, with
\* the distinct global ids of the loops matched with it
NodesInBoxRows(q) ==
  LET m == NodesInBoxMatches(q)
  IN {[timestamp |-> NodeOf(e[1]).time, node_id |-> NodeOf(e[1]).id,
       x |-> NodeOf(e[1]).x, y |-> NodeOf(e[1]).y, z |-> NodeOf(e[1]).z,
       loop_candidates |->
         {LoopOf(f[2]).global_id :
            f \in {g \in m : RowKey(NodeOf(g[1])) = RowKey(NodeOf(e[1]))}}] :
      e \in m}

\* lines 68-97
get_nodes_in_box(p1, p2, timestamp) ==
  LET constraints == compute_box_constraints(p1, p2)
  IN [exc |-> "", rows |-> NodesInBoxRows(NodesInBoxQuery(constraints, timestamp))]

\* lines 116-126: the nodes matched with the loop (global_id, time)
LoopNodeRows(loop_gid, timestamp) ==
  {n \in dbNodes :
     /\ n.time = CypherInt(Str(timestamp))
     /\ \E l \in dbLoopEnts :
          /\ l.global_id = CypherInt(Str(loop_gid))
          /\ l.time = CypherInt(Str(timestamp))
          /\ <<n.nid, l.lid>> \in dbEdges}

\* the column labels of a query result: run_query builds the frame from the
\* list of row dicts, so a result without rows has no column
ResultColumns(rows) ==
  IF rows = {} THEN {}
  ELSE {<<"timestamp">>, <<"node_id">>, <<"x">>, <<"y">>, <<"z">>}

\* DataFrame.__getitem__ with one key: a tuple is one label, and a label that
\* is no column raises KeyError. Labels are written as tuples of strings.
FrameGetItem(columns, key) ==
  IF key \in columns THEN [exc |-> "", cols |-> {key}]
  ELSE [exc |-> "KeyError", cols |-> {}]

SetMin(S) == CHOOSE m \in S : \A v \in S : m <= v
SetMax(S) == CHOOSE m \in S : \A v \in S : m >= v

\* lines 105-136
fit_box_to_loop(loop_gid, timestamp) ==
  LET res == LoopNodeRows(loop_gid, timestamp)
      sel == FrameGetItem(ResultColumns(res), <<"x", "y", "z">>)
  IN IF sel.exc # ""
     THEN [exc |-> sel.exc, p1 |-> <<>>, p2 |-> <<>>, constraints |-> <<>>]
     ELSE LET min_x == SetMin({n.x : n \in res})
              min_y == SetMin({n.y : n \in res})
              min_z == SetMin({n.z : n \in res})
              max_x == SetMax({n.x : n \in res})
              max_y == SetMax({n.y : n \in res})
              max_z == SetMax({n.z : n \in res})
              p1 == <<min_x, min_y, min_z>>
              p2 == <<max_x, max_y, max_z>>
              constraints == <<min_x, max_x, min_y, max_y, min_z, max_z>>
          IN IF compute_box_constraints(p1, p2) = constraints
             THEN [exc |-> "", p1 |-> p1, p2 |-> p2, constraints |-> constraints]
             ELSE [exc |-> "AssertionError", p1 |-> <<>>, p2 |-> <<>>,
                   constraints |-> <<>>]

\* the script is not run
ScriptOff ==
  /\ scan = <<>>
  /\ dbLoops = <<>>
  /\ dbJunctions = <<>>
  /\ dbELoops = {}
  /\ dbConnections = {}
  /\ issued = <<>>
  /\ tsIdx = 1
  /\ final_dict = EmptyDict
  /\ jIdx = 1
  /\ lIdx = 1
  /\ rowIdx = 1
  /\ pc = "off"

\* a call of compute_box_constraints; each run makes one call
ComputeBoxConstraints ==
  /\ call = NoCall
  /\ \E p1 \in Points, p2 \in Points :
       /\ call' = [fn |-> "compute_box_constraints", p1 |-> p1, p2 |-> p2]
       /\ ret' = [exc |-> "", val |-> compute_box_constraints(p1, p2)]
  /\ UNCHANGED <<dbNodes, dbLoopEnts, dbEdges>>
  /\ UNCHANGED scriptVars

\* a call of check_same_box
CheckSameBox ==
  /\ call = NoCall
  /\ \E p1 \in Points, p2 \in Points, p3 \in Points, p4 \in Points :
       /\ call' = [fn |-> "check_same_box", p1 |-> p1, p2 |-> p2,
                   p3 |-> p3, p4 |-> p4]
       /\ ret' = [exc |-> "", val |-> check_same_box(p1, p2, p3, p4)]
  /\ UNCHANGED <<dbNodes, dbLoopEnts, dbEdges>>
  /\ UNCHANGED scriptVars

InitBox ==
  /\ call = NoCall
  /\ ret = NoCall
  /\ dbNodes = {}
  /\ dbLoopEnts = {}
  /\ dbEdges = {}
  /\ ScriptOff

NextBox ==
  \/ ComputeBoxConstraints
  \/ CheckSameBox

SpecBox == InitBox /\ [][NextBox]_vars

\* the stores the queries are run against: up to two Nodes at a few places,
\* three Loops, any edges between them
QueryTimes == {50, 100}
NodePlaces == {<<0, 0, 0>>, <<1, 1, 1>>, <<2, 2, 2>>}
CornerPoints == {<<0, 0, 0>>, <<1, 1, 1>>, <<2, 2, 2>>, <<2, 0, 1>>}
NodeIds == {1, 2}
LoopEntities ==
  {[lid |-> 1, global_id |-> 1, time |-> 50],
   [lid |-> 2, global_id |-> 2, time |-> 50],
   [lid |-> 3, global_id |-> 1, time |-> 100]}

NodeStores ==
  {S \in SUBSET {[nid |-> i, id |-> i, time |-> t, x |-> p[1], y |-> p[2],
                  z |-> p[3]] : i \in NodeIds, t \in QueryTimes, p \in NodePlaces} :
     \A n \in S, m \in S : n.nid = m.nid => n = m}

InitQuery ==
  /\ call = NoCall
  /\ ret = NoCall
  /\ dbNodes \in NodeStores
  /\ dbLoopEnts = LoopEntities
  /\ dbEdges \in SUBSET {<<n.nid, l.lid>> : n \in dbNodes, l \in LoopEntities}
  /\ ScriptOff

\* a call of get_nodes_in_box
GetNodesInBox ==
  /\ call = NoCall
  /\ \E p1 \in CornerPoints, p2 \in CornerPoints, timestamp \in QueryTimes :
       /\ call' = [fn |-> "get_nodes_in_box", p1 |-> p1, p2 |-> p2,
                   timestamp |-> timestamp]
       /\ ret' = get_nodes_in_box(p1, p2, timestamp)
  /\ UNCHANGED <<dbNodes, dbLoopEnts, dbEdges>>
  /\ UNCHANGED scriptVars

\* a call of fit_box_to_loop
FitBoxToLoop ==
  /\ call = NoCall
  /\ \E loop_gid \in {l.global_id : l \in dbLoopEnts}, timestamp \in QueryTimes :
       /\ call' = [fn |-> "fit_box_to_loop", loop_gid |-> loop_gid,
                   timestamp |-> timestamp]
       /\ ret' = fit_box_to_loop(loop_gid, timestamp)
  /\ UNCHANGED <<dbNodes, dbLoopEnts, dbEdges>>
  /\ UNCHANGED scriptVars

NextQuery ==
  \/ GetNodesInBox
  \/ FitBoxToLoop

SpecQuery == InitQuery /\ [][NextQuery]_vars

----------------------------------------------------------------------------
(* Properties of utility.py *)

Least(a, b) == CHOOSE m \in {a, b} : \A v \in {a, b} : m <= v
Greatest(a, b) == CHOOSE m \in {a, b} : \A v \in {a, b} : m >= v
\* the normalized 6-tuple of the box with diagonal p, q
Normalized(p, q) ==
  <<Least(p[1], q[1]), Greatest(p[1], q[1]),
    Least(p[2], q[2]), Greatest(p[2], q[2]),
    Least(p[3], q[3]), Greatest(p[3], q[3])>>
\* p3, p4 are opposite corners of the box of p1, p2
OppositeCorners(p1, p2, p3, p4) ==
  \A i \in 1..3 : \/ p3[i] = p1[i] /\ p4[i] = p2[i]
                  \/ p3[i] = p2[i] /\ p4[i] = p1[i]

\* C7: compute_box_constraints(p1, p2) is (min_x, max_x, min_y, max_y, min_z,
\* max_z) with min <= max on every axis and equals the result for (p2, p1);
\* check_same_box is true for any two diagonals of one box and false whenever
\* the two normalized 6-tuples differ.
C7_BoxDiagonalIndependence ==
  /\ call.fn = "compute_box_constraints" =>
       /\ ret.val = Normalized(call.p1, call.p2)
       /\ ret.val[1] <= ret.val[2] /\ ret.val[3] <= ret.val[4]
       /\ ret.val[5] <= ret.val[6]
       /\ ret.val = compute_box_constraints(call.p2, call.p1)
  /\ call.fn = "check_same_box" =>
       /\ OppositeCorners(call.p1, call.p2, call.p3, call.p4) => ret.val = TRUE
       /\ Normalized(call.p1, call.p2) # Normalized(call.p3, call.p4) =>
            ret.val = FALSE

\* check_same_box has answered for the other diagonal of a box
C7_Witness ==
  /\ call.fn = "check_same_box"
  /\ OppositeCorners(call.p1, call.p2, call.p3, call.p4)
  /\ call.p3 \notin {call.p1, call.p2}
  /\ call.p1[1] > call.p2[1]
  /\ ret.val = TRUE

InBox(n, c) ==
  /\ c[1] <= n.x /\ n.x <= c[2]
  /\ c[3] <= n.y /\ n.y <= c[4]
  /\ c[5] <= n.z /\ n.z <= c[6]
ConnectedGids(n) ==
  {l.global_id : l \in {m \in dbLoopEnts : <<n.nid, m.lid>> \in dbEdges}}
RowsOfNode(n) ==
  {r \in ret.rows : r.timestamp = n.time /\ r.node_id = n.id /\ r.x = n.x
                    /\ r.y = n.y /\ r.z = n.z}

\* C5: the result of get_nodes_in_box has a row for a Node if and only if the
\* Node's time is the timestamp and its x, y, z lie within the inclusive
\* bounds of the box, with zero Loops or more; loop_candidates is the set of
\* the global ids of its Loops.
C5_RowIffNodeInBox ==
  call.fn = "get_nodes_in_box" =>
    \A n \in dbNodes :
      /\ RowsOfNode(n) # {} <=>
           (n.time = call.timestamp
              /\ InBox(n, compute_box_constraints(call.p1, call.p2)))
      /\ \A r \in RowsOfNode(n) : r.loop_candidates = ConnectedGids(n)

LoopMembers(gid, t) ==
  {n \in dbNodes :
     n.time = t /\ \E l \in dbLoopEnts :
                     l.global_id = gid /\ l.time = t /\ <<n.nid, l.lid>> \in dbEdges}

\* C8: for a loop with a node at the timestamp, fit_box_to_loop returns p1,
\* the per-axis minimum, p2, the per-axis maximum, and the constraints, and
\* its assertion does not fail; for a loop with no node it raises.
C8_FitReturnsExtremes ==
  call.fn = "fit_box_to_loop" =>
    LET ns == LoopMembers(call.loop_gid, call.timestamp)
    IN IF ns = {} THEN ret.exc # ""
       ELSE /\ ret.exc = ""
            /\ ret.p1 = <<SetMin({n.x : n \in ns}), SetMin({n.y : n \in ns}),
                          SetMin({n.z : n \in ns})>>
            /\ ret.p2 = <<SetMax({n.x : n \in ns}), SetMax({n.y : n \in ns}),
                          SetMax({n.z : n \in ns})>>
            /\ ret.constraints = <<ret.p1[1], ret.p2[1], ret.p1[2], ret.p2[2],
                                   ret.p1[3], ret.p2[3]>>

====
